---- MODULE Spec2Model ----
(***************************************************************************)
(* A model of the heap library: heap::Fibonacci (include/heap/Fibonacci.hpp)*)
(* and heap::Binary (include/heap/Binary.hpp).                              *)
(*                                                                         *)
(* The operations are pure operators on a "world" record holding the node  *)
(* store and the heap objects; the actions apply them.  Nodes are numbered *)
(* in allocation order.  A node's memory exists while some shared_ptr owns  *)
(* it (a root list, a children list, a minimum pointer, a handle kept by   *)
(* the caller); a weak parent reference to a destroyed node reads as        *)
(* expired.  Undefined behaviour is either a crash of the process or, for   *)
(* an out-of-bounds access to the rank table, a read that finds an empty    *)
(* entry and a write that is lost.                                          *)
(***************************************************************************)
EXTENDS Integers, Sequences, FiniteSets, TLC

\* ------------------------------------------------------------- bounds
MaxNodes == 4        \* nodes allocated in one run
MaxKey == 3          \* keys are 1..MaxKey
SizeBits == 16       \* width of the modelled size_t counter (wraps at 2^SizeBits)
MaxMerges == 1       \* merge calls in one run
MaxListed == 5       \* keys in the initializer list a heap is constructed from
MaxVertices == 5     \* vertices of a graph given to dijkstra
MaxWeight == 1       \* edge weights are 0..MaxWeight
MaxGrown == 9        \* inserts that grow a heap before its first extract-min

\* the graphs given to dijkstra: each of these edges <<from, to>> is left out or put
\* in with some weight, by push_back in this order
Candidates ==
  << <<0, 1>>, <<0, 2>>, <<0, 2>>, <<0, 3>>, <<1, 3>>, <<3, 0>> >>

\* dijkstra inserts the source and one heap entry for each improvement of a distance
MaxEntries == 1 + Len(Candidates)

Max(a, b) == IF a > b THEN a ELSE b
NodeSpace == Max(Max(MaxEntries, MaxGrown), Max(MaxListed, MaxNodes))
Node == 1..NodeSpace
Key == 1..MaxKey
Heap == {1, 2}
NULL == 0
SizeMod == 2 ^ SizeBits
UB == {"crash", "benign"}

\* the template parameter Comparator of both heap classes: std::less<K> (the default)
\* or std::greater<K>, applied to two keys
Comparator(order, a, b) == IF order = "greater" THEN a > b ELSE a < b

\* ------------------------------------------------------------- sequences
Range(s) == {s[i] : i \in 1..Len(s)}
RemoveAll(s, x) == SelectSeq(s, LAMBDA e : e # x)
RemoveAt(s, p) == SubSeq(s, 1, p - 1) \o SubSeq(s, p + 1, Len(s))

RECURSIVE Log2(_)
Log2(n) == IF n <= 1 THEN 0 ELSE 1 + Log2(n \div 2)

\* ------------------------------------------------------------- Fibonacci world
\* node fields (struct node), heap fields (trees, num_elements, minimum), and the
\* caller: the handles it keeps (held), the nodes it has removed (gone), the heap
\* each node was given to (owner), the merge calls it has made (merges).  crashed: the process has died of undefined
\* behaviour; tainted: it has survived some.
EmptyFib ==
  [ key |-> [n \in Node |-> 0],
    parent |-> [n \in Node |-> NULL],
    children |-> [n \in Node |-> << >>],
    marked |-> [n \in Node |-> FALSE],
    removed |-> [n \in Node |-> FALSE],
    trees |-> [h \in Heap |-> << >>],
    num_elements |-> [h \in Heap |-> 0],
    minimum |-> [h \in Heap |-> NULL],
    nalloc |-> 0,
    merges |-> 0,
    held |-> {},
    gone |-> {},
    owner |-> [n \in Node |-> 0],
    order |-> "less",
    crashed |-> FALSE,
    tainted |-> FALSE ]

\* undefined behaviour: the process dies, or it goes on (tainted from then on)
Crash(F) == [F EXCEPT !.crashed = TRUE]
Taint(F) == [F EXCEPT !.tainted = TRUE]

is_root(F, n) == F.parent[n] = NULL
rank(F, n) == Len(F.children[n])
size(F, h) == F.num_elements[h]
empty(F, h) == F.num_elements[h] = 0
get_minimum(F, h) == F.minimum[h]

\* the augmented comparator of the constructors
cmp(F, lhs, rhs) ==
  IF F.removed[lhs] THEN TRUE ELSE Comparator(F.order, F.key[lhs], F.key[rhs])
\* cmp dereferences lhs always, rhs only when lhs is not flagged removed
cmp_faults(F, lhs, rhs) == lhs = NULL \/ (~F.removed[lhs] /\ rhs = NULL)

\* nodes whose memory survives: the greatest set in which every node is owned from
\* outside (root list, minimum pointer, caller's handle) or by a surviving parent
RECURSIVE Survivors(_, _)
Survivors(F, S) ==
  LET ext == UNION {Range(F.trees[h]) : h \in Heap}
               \cup {F.minimum[h] : h \in Heap} \cup F.held
      S2 == {n \in S : n \in ext \/ \E m \in S : n \in Range(F.children[m])}
  IN IF S2 = S THEN S ELSE Survivors(F, S2)

\* a handle of a removed node matters only while a parent reference points to it
Release(F) ==
  [F EXCEPT !.held = {n \in @ : n \in F.gone => \E m \in Node : F.parent[m] = n},
            !.gone = {n \in @ : n \in F.held /\ \E m \in Node : F.parent[m] = n}]

\* destroy the nodes nothing owns; weak references to them expire
Collect(F0) ==
  LET F == Release(F0)
      live == Survivors(F, {n \in Node : F.key[n] # 0})
  IN [F EXCEPT
        !.key = [n \in Node |-> IF n \in live THEN F.key[n] ELSE 0],
        !.parent = [n \in Node |-> IF n \in live /\ F.parent[n] \in live
                                    THEN F.parent[n] ELSE NULL],
        !.children = [n \in Node |-> IF n \in live THEN F.children[n] ELSE << >>],
        !.marked = [n \in Node |-> n \in live /\ F.marked[n]],
        !.removed = [n \in Node |-> n \in live /\ F.removed[n]],
        !.owner = [n \in Node |-> IF n \in live THEN F.owner[n] ELSE 0]]

\* std::min_element over the root list with a->key < b->key: the first smallest
search_minimum(F, h) ==
  LET t == F.trees[h]
  IN IF t = << >> THEN NULL
     ELSE t[CHOOSE i \in 1..Len(t) :
              /\ \A j \in 1..Len(t) : F.key[t[i]] <= F.key[t[j]]
              /\ \A j \in 1..(i - 1) : F.key[t[j]] > F.key[t[i]]]

link_winner(F, lhs, rhs) == IF cmp(F, lhs, rhs) THEN lhs ELSE rhs

link(F, lhs, rhs) ==
  IF cmp(F, lhs, rhs)
    THEN [F EXCEPT !.children[lhs] = Append(@, rhs), !.parent[rhs] = lhs]
    ELSE [F EXCEPT !.children[rhs] = Append(@, lhs), !.parent[lhs] = rhs]

\* Fibonacci(std::initializer_list<key_type> keys): one single-node tree per key, in
\* the order of the list; the constructor hands out no handle
Constructed(keys) ==
  LET F == [EmptyFib EXCEPT
              !.key = [n \in Node |-> IF n <= Len(keys) THEN keys[n] ELSE 0],
              !.owner = [n \in Node |-> IF n <= Len(keys) THEN 1 ELSE 0],
              !.trees[1] = [i \in 1..Len(keys) |-> i],
              !.num_elements[1] = Len(keys),
              !.nalloc = Len(keys)]
  IN [F EXCEPT !.minimum[1] = search_minimum(F, 1)]

\* ------------------------------------------------------------- consolidate
\* The root list is a sequence and a list iterator is a position in it; END is
\* trees.end(), STALE an iterator whose list element has been erased.  The loop state
\* L holds the world F, the table root_with_rank (tab, indexed 0..maxr), the position
\* of curr_it (curr) and of the outer iterator it (nxt), and a record of what the
\* loop did (log): the root each pass of the for loop starts with ("visit"), every
\* evaluation of the while condition with the table it finds ("look"), every call of
\* link with the ranks of its arguments ("link").
END == 0
STALE == 0 - 1

\* trees.erase(curr_it): later positions move down, iterators to the element dangle
erase_shift(x, p) == IF x = p THEN STALE ELSE IF x > p THEN x - 1 ELSE x

\* root_with_rank[r] = v; an index beyond the table is out of bounds
table_store(L, r, v, u) ==
  IF r \in DOMAIN L.tab THEN [L EXCEPT !.tab[r] = v]
  ELSE IF u = "crash" THEN [L EXCEPT !.F = Crash(@)]
  ELSE [L EXCEPT !.F = Taint(@)]

\* the table as the loop finds it: for each entry in use, its index, the root its
\* iterator refers to (NULL when the list element is gone) and that root's rank
table_entries(L, h) ==
  {<<x, IF L.tab[x] = STALE THEN NULL ELSE L.F.trees[h][L.tab[x]],
        IF L.tab[x] = STALE THEN 0 ELSE rank(L.F, L.F.trees[h][L.tab[x]])>> :
     x \in {y \in DOMAIN L.tab : L.tab[y] # END}}

looked(L, h) ==
  [L EXCEPT !.log = Append(@, [ev |-> "look", node |-> L.F.trees[h][L.curr],
                               entries |-> table_entries(L, h)])]

\* the node link(lhs, rhs) hangs under the other one
link_loser(F, lhs, rhs) == IF cmp(F, lhs, rhs) THEN rhs ELSE lhs

linked(L, lhs, rhs) ==
  [L EXCEPT !.log = Append(@, [ev |-> "link", lhs |-> lhs, rhs |-> rhs,
                               lrank |-> rank(L.F, lhs), rrank |-> rank(L.F, rhs),
                               loser |-> link_loser(L.F, lhs, rhs),
                               marked |-> L.F.marked[link_loser(L.F, lhs, rhs)]])]

visited(L, h) ==
  [L EXCEPT !.log = Append(@, [ev |-> "visit", node |-> L.F.trees[h][L.nxt]])]

\* the inner while loop of consolidate (Fibonacci.hpp:310-318): the condition is
\* evaluated (link_loop), and on an entry in use the body runs (link_pass)
RECURSIVE link_loop(_, _, _)
RECURSIVE link_pass(_, _, _)
link_loop(L, h, u) == IF L.F.crashed THEN L ELSE link_pass(looked(L, h), h, u)

link_pass(L, h, u) ==
  LET F == L.F
      lhs == F.trees[h][L.curr]
      r == rank(F, lhs)
  IN IF r \notin DOMAIN L.tab
       THEN (IF u = "crash" THEN [L EXCEPT !.F = Crash(@)] ELSE [L EXCEPT !.F = Taint(@)])
     ELSE IF L.tab[r] = END THEN L
     ELSE IF L.tab[r] = STALE \/ L.tab[r] = L.curr THEN [L EXCEPT !.F = Crash(@)]
     ELSE
       LET other == L.tab[r]
           rhs == F.trees[h][other]
           F1 == [link(F, lhs, rhs) EXCEPT !.trees[h][other] = link_winner(F, lhs, rhs)]
           L1 == table_store([linked(L, lhs, rhs) EXCEPT !.F = F1], rank(F1, lhs), END, u)
           L2 == [L1 EXCEPT
                    !.F.trees[h] = RemoveAt(@, L.curr),
                    !.tab = [x \in DOMAIN L1.tab |-> erase_shift(L1.tab[x], L.curr)],
                    !.nxt = erase_shift(@, L.curr),
                    !.curr = erase_shift(other, L.curr)]
       IN IF L1.F.crashed THEN L1 ELSE link_loop(L2, h, u)

\* the for loop of consolidate (Fibonacci.hpp:306-322)
RECURSIVE root_loop(_, _, _)
root_loop(L, h, u) ==
  IF L.F.crashed \/ L.nxt > Len(L.F.trees[h]) THEN L
  ELSE LET L1 == link_loop([visited(L, h) EXCEPT !.curr = L.nxt, !.nxt = L.nxt + 1], h, u)
       IN IF L1.F.crashed THEN L1
          ELSE root_loop(table_store(L1, rank(L1.F, L1.F.trees[h][L1.curr]),
                                     L1.curr, u), h, u)

\* consolidate() past its early return: the loop state it ends in
consolidate_loops(F, h, u) ==
  LET max_rank == Log2(F.num_elements[h])
  IN root_loop([F |-> F, tab |-> [r \in 0..max_rank |-> END],
                curr |-> 0, nxt |-> 1, log |-> << >>], h, u)

consolidate(F, h, u) ==
  IF F.num_elements[h] = 0 THEN F ELSE consolidate_loops(F, h, u).F

\* ------------------------------------------------------------- operations
\* insert(key): the caller keeps the handle it returns (it may release it when the
\* node is taken out, see DeleteMinimum and Remove)
insert(F, h, k) ==
  LET n == F.nalloc + 1
      F1 == [F EXCEPT !.nalloc = n, !.key[n] = k, !.owner[n] = h,
                      !.trees[h] = Append(@, n),
                      !.num_elements[h] = (@ + 1) % SizeMod,
                      !.held = @ \cup {n}]
  IN IF F1.num_elements[h] = 1 THEN [F1 EXCEPT !.minimum[h] = n]
     ELSE IF cmp_faults(F1, n, F1.minimum[h]) THEN Crash(F1)
     ELSE IF cmp(F1, n, F1.minimum[h]) THEN [F1 EXCEPT !.minimum[h] = n]
     ELSE F1

\* merge(const Fibonacci& fh): a.merge(b), the root list of b is copied
merge_copy(F, a, b) ==
  LET F1 == [F EXCEPT !.trees[a] = @ \o F.trees[b],
                      !.num_elements[a] = (@ + F.num_elements[b]) % SizeMod]
  IN IF cmp_faults(F1, F1.minimum[b], F1.minimum[a]) THEN Crash(F1)
     ELSE IF cmp(F1, F1.minimum[b], F1.minimum[a])
       THEN [F1 EXCEPT !.minimum[a] = F1.minimum[b]]
     ELSE F1

\* merge(Fibonacci&& fh): a.merge(std::move(b)), the root list of b is spliced
merge_move(F, a, b) ==
  LET F1 == [F EXCEPT !.trees[a] = @ \o F.trees[b],
                      !.trees[b] = << >>,
                      !.num_elements[a] = (@ + F.num_elements[b]) % SizeMod,
                      !.owner = [n \in Node |-> IF F.owner[n] = b THEN a ELSE F.owner[n]]]
  IN IF cmp_faults(F1, F1.minimum[b], F1.minimum[a]) THEN Crash(F1)
     ELSE IF cmp(F1, F1.minimum[b], F1.minimum[a])
       THEN [F1 EXCEPT !.minimum[a] = F1.minimum[b]]
     ELSE F1

\* remove_minimum(), phase 1 (Fibonacci.hpp:149-154): the minimum leaves the root
\* list and its children are spliced to the end of it
remove_minimum_phase1(F, h) ==
  LET deleted == F.minimum[h]
      F1 == [F EXCEPT !.trees[h] = RemoveAll(@, deleted),
                      !.num_elements[h] = (@ - 1) % SizeMod]
  IN IF deleted = NULL THEN Crash(F1)
     ELSE [F1 EXCEPT !.trees[h] = @ \o F1.children[deleted],
                     !.children[deleted] = << >>,
                     !.gone = @ \cup {deleted}]

\* remove_minimum(): the three phases; the node taken out is F.minimum[h] before
remove_minimum(F, h, u) ==
  LET F2 == remove_minimum_phase1(F, h)
  IN IF F2.crashed THEN F2
     ELSE LET F3 == consolidate(F2, h, u)
          IN IF F3.crashed THEN F3
             ELSE [F3 EXCEPT !.minimum[h] = search_minimum(F3, h)]

\* delete_minimum(): the node remove_minimum() returns is a temporary, and a caller
\* that reads only the key lets go of the node
delete_minimum(F, h, u) ==
  LET deleted == F.minimum[h]
  IN [remove_minimum(F, h, u) EXCEPT !.held = @ \ {deleted}]

\* mark(node): a null node is dereferenced
mark(F, n) ==
  IF n = NULL THEN Crash(F)
  ELSE IF is_root(F, n) THEN F
  ELSE [F EXCEPT !.marked[n] = TRUE]

\* cut(node): node->parent.lock() is dereferenced
cut(F, h, n) ==
  IF F.parent[n] = NULL THEN Crash(F)
  ELSE [F EXCEPT !.children[F.parent[n]] = RemoveAll(@, n),
                 !.trees[h] = Append(@, n),
                 !.marked[n] = FALSE,
                 !.parent[n] = NULL]

RECURSIVE cascade_cut(_, _, _)
cascade_cut(F, h, n) ==
  IF F.crashed THEN F
  ELSE IF ~is_root(F, n) /\ F.marked[F.parent[n]]
    THEN cascade_cut(cut(F, h, n), h, F.parent[n])
  ELSE LET F1 == mark(F, F.parent[n])
       IN IF F1.crashed THEN F1 ELSE cut(F1, h, n)

\* the guard of decrease_key with the operands of Comparator swapped
key_compared_backwards(F, n, k) == k < F.key[n]

\* decrease_key throws std::invalid_argument when Comparator()(node->key, new_key)
key_increased(F, n, k) == Comparator(F.order, F.key[n], k)

decrease_key(F, h, n, k) ==
  IF key_increased(F, n, k) THEN F
  ELSE
    LET F1 == [F EXCEPT !.key[n] = k]
        F2 == IF cmp(F1, n, F1.minimum[h]) THEN [F1 EXCEPT !.minimum[h] = n] ELSE F1
        p == F2.parent[n]
    IN IF cmp_faults(F1, n, F1.minimum[h]) THEN Crash(F1)
       ELSE IF is_root(F2, n) THEN F2
       ELSE IF cmp(F2, p, n) THEN F2
       ELSE IF ~F2.marked[p] THEN cut(mark(F2, p), h, n)
       ELSE cascade_cut(F2, h, n)

\* remove(node), first half: the node is flagged and decrease_key is run with the
\* node's own key
Floated(F, h, n) == decrease_key([F EXCEPT !.removed[n] = TRUE], h, n, F.key[n])

\* remove(node): flag, decrease_key, delete_minimum; the handle passed in by
\* reference stays with the caller
remove(F, h, n, u) ==
  LET F1 == [Floated(F, h, n) EXCEPT !.gone = @ \cup {n}]
  IN IF F1.crashed THEN F1 ELSE remove_minimum(F1, h, u)

\* ------------------------------------------------------------- Binary world
\* struct node holds the key only; heap[h] is the vector of node pointers.  The
\* std heap algorithms are those of libstdc++ (bits/stl_heap.h), on 0-based indices.
LOWEST == 0 - 2147483647 - 1      \* std::numeric_limits<int>::lowest()

EmptyBin ==
  [ key |-> [n \in Node |-> 0],
    heap |-> [h \in Heap |-> << >>],
    nalloc |-> 0,
    merges |-> 0,
    held |-> {},
    gone |-> {},
    owner |-> [n \in Node |-> 0],
    order |-> "less",
    crashed |-> FALSE ]

\* operator<(lhs, rhs) of node_ptr: Comparator()(rhs->key, lhs->key)
node_less(B, lhs, rhs) == Comparator(B.order, B.key[rhs], B.key[lhs])

At(s, i) == s[i + 1]
Put(s, i, v) == [s EXCEPT ![i + 1] = v]
\* C++ integer division truncates toward zero
Half(i) == IF i < 0 THEN 0 - ((0 - i) \div 2) ELSE i \div 2

RECURSIVE std_push_heap_from(_, _, _, _, _)
std_push_heap_from(B, s, holeIndex, topIndex, value) ==
  LET parent == Half(holeIndex - 1)
  IN IF holeIndex > topIndex /\ node_less(B, At(s, parent), value)
       THEN std_push_heap_from(B, Put(s, holeIndex, At(s, parent)), parent, topIndex, value)
       ELSE Put(s, holeIndex, value)

\* std::push_heap(first, first + len)
std_push_heap(B, s, len) ==
  IF len = 0 THEN s ELSE std_push_heap_from(B, s, len - 1, 0, At(s, len - 1))

RECURSIVE std_sift_hole_down(_, _, _, _)
\* the first loop of __adjust_heap: returns <<sequence, holeIndex, secondChild>>
std_sift_hole_down(B, s, holeIndex, len) ==
  IF holeIndex < Half(len - 1)
    THEN LET right == 2 * (holeIndex + 1)
             child == IF node_less(B, At(s, right), At(s, right - 1))
                        THEN right - 1 ELSE right
         IN std_sift_hole_down(B, Put(s, holeIndex, At(s, child)), child, len)
    ELSE <<s, holeIndex>>

std_adjust_heap(B, s, holeIndex, len, value) ==
  LET d == std_sift_hole_down(B, s, holeIndex, len)
      s1 == d[1]
      hole1 == d[2]
      only == 2 * (hole1 + 1) - 1
      lastLeft == len % 2 = 0 /\ hole1 = Half(len - 2)
      s2 == IF lastLeft THEN Put(s1, hole1, At(s1, only)) ELSE s1
      hole2 == IF lastLeft THEN only ELSE hole1
  IN std_push_heap_from(B, s2, hole2, holeIndex, value)

RECURSIVE std_make_heap_from(_, _, _)
std_make_heap_from(B, s, parent) ==
  LET s1 == std_adjust_heap(B, s, parent, Len(s), At(s, parent))
  IN IF parent = 0 THEN s1 ELSE std_make_heap_from(B, s1, parent - 1)

std_make_heap(B, s) ==
  IF Len(s) < 2 THEN s ELSE std_make_heap_from(B, s, Half(Len(s) - 2))

\* std::pop_heap: the front goes to the back, the rest is a heap again
std_pop_heap(B, s) ==
  LET len == Len(s)
  IN IF len > 1
       THEN std_adjust_heap(B, Put(s, len - 1, At(s, 0)), 0, len - 1, At(s, len - 1))
       ELSE s

RECURSIVE std_is_heap_until_from(_, _, _, _)
std_is_heap_until_from(B, s, parent, child) ==
  IF child >= Len(s) THEN Len(s)
  ELSE IF node_less(B, At(s, parent), At(s, child)) THEN child
  ELSE std_is_heap_until_from(B, s, IF child % 2 = 0 THEN parent + 1 ELSE parent,
                              child + 1)
std_is_heap_until(B, s) == std_is_heap_until_from(B, s, 0, 1)

\* Binary(std::initializer_list<key_type> keys): one node per key in the order of the
\* list, then std::make_heap; the constructor hands out no handle
bin_constructed(keys) ==
  LET B == [EmptyBin EXCEPT
              !.key = [n \in Node |-> IF n <= Len(keys) THEN keys[n] ELSE 0],
              !.owner = [n \in Node |-> IF n <= Len(keys) THEN 1 ELSE 0],
              !.nalloc = Len(keys)]
  IN [B EXCEPT !.heap[1] = std_make_heap(B, [i \in 1..Len(keys) |-> i])]

bin_size(B, h) == Len(B.heap[h])
bin_empty(B, h) == B.heap[h] = << >>
bin_get_minimum(B, h) == IF Len(B.heap[h]) > 0 THEN At(B.heap[h], 0) ELSE NULL

bin_insert(B, h, k) ==
  LET n == B.nalloc + 1
      B1 == [B EXCEPT !.nalloc = n, !.key[n] = k, !.owner[n] = h,
                      !.held = @ \cup {n}]
  IN [B1 EXCEPT !.heap[h] = std_push_heap(B1, Append(@, n), Len(@) + 1)]

\* merge(const Binary&) copies the vector and calls merge(Binary&&), which inserts
\* the pointers of bin.nodes() and leaves bin as it is
bin_merge_move(B, a, b) ==
  [B EXCEPT !.heap[a] = std_make_heap(B, @ \o B.heap[b]),
            !.owner = [n \in Node |-> IF B.owner[n] = b THEN a ELSE B.owner[n]]]
bin_merge_copy(B, a, b) ==
  [B EXCEPT !.heap[a] = std_make_heap(B, @ \o B.heap[b])]

\* remove_minimum(): heap.back() of an empty vector is undefined
bin_remove_minimum(B, h) ==
  IF B.heap[h] = << >> THEN [B EXCEPT !.crashed = TRUE]
  ELSE LET s == std_pop_heap(B, B.heap[h])
       IN [B EXCEPT !.heap[h] = SubSeq(s, 1, Len(s) - 1),
                    !.gone = @ \cup {s[Len(s)]}]
bin_removed_node(B, h) ==
  IF B.heap[h] = << >> THEN NULL ELSE LET s == std_pop_heap(B, B.heap[h]) IN s[Len(s)]

bin_key_increased(B, n, k) == k > B.key[n]

bin_decrease_key(B, h, n, k) ==
  IF bin_key_increased(B, n, k) THEN B
  ELSE LET B1 == [B EXCEPT !.key[n] = k]
           modified == std_is_heap_until(B1, B1.heap[h])
       IN IF modified # Len(B1.heap[h])
            THEN [B1 EXCEPT !.heap[h] = std_push_heap(B1, @, modified + 1)]
            ELSE B1

bin_remove(B, h, n) ==
  bin_remove_minimum([bin_decrease_key(B, h, n, LOWEST) EXCEPT !.gone = @ \cup {n}], h)

\* nodes in no vector are destroyed once the caller lets go of them
BinSettle(B) ==
  IF B.crashed THEN [EmptyBin EXCEPT !.crashed = TRUE, !.order = B.order]
  ELSE LET live == UNION {Range(B.heap[h]) : h \in Heap}
       IN [B EXCEPT !.key = [n \in Node |-> IF n \in live THEN B.key[n] ELSE 0],
                    !.held = @ \cap live,
                    !.gone = @ \cap live,
                    !.owner = [n \in Node |-> IF n \in live THEN B.owner[n] ELSE 0]]

\* the world after a call: a crashed process has no heap left to observe; otherwise
\* nodes are destroyed until no more can be
RECURSIVE Settle(_)
Settle(F) ==
  IF F.crashed THEN Crash([EmptyFib EXCEPT !.order = F.order])
  ELSE LET G == Collect(F) IN IF G = F THEN F ELSE Settle(G)

\* ------------------------------------------------------------- state
\* impl is the heap class the client was built with; fib and bin are its worlds (the
\* other one stays empty); last is the call made last and what came back.
\* dij is the call of graph::dijkstra the client makes: its arguments, its locals d,
\* parent and vert (the vertex of each queue entry), and its result.
VARIABLES impl, fib, bin, last, dij
vars == <<impl, fib, bin, last, dij>>

NoRun == [graph |-> << >>, source |-> 0, destination |-> 0, d |-> << >>,
          parent |-> << >>, vert |-> << >>, path |-> << >>, outcome |-> "none"]

NoCall == [op |-> "none", heap |-> 0, node |-> NULL, key |-> 0, ret |-> 0,
           outcome |-> "ok"]
Call(op, h, n, k, ret, crashed) ==
  [op |-> op, heap |-> h, node |-> n, key |-> k, ret |-> ret,
   outcome |-> IF crashed THEN "crash" ELSE "ok"]
Thrown(op, h, n, k) ==
  [op |-> op, heap |-> h, node |-> n, key |-> k, ret |-> 0, outcome |-> "KeyIncreased"]

\* the handles a caller may still use on heap h: kept, not removed, given to h
Usable(F, h) == {n \in F.held \ F.gone : F.owner[n] = h}

Init ==
  /\ impl \in {"Fibonacci", "Binary"}
  /\ fib = EmptyFib
  /\ bin = EmptyBin
  /\ last = NoCall
  /\ dij = NoRun

FibRuns == impl = "Fibonacci" /\ ~fib.crashed /\ UNCHANGED <<impl, bin, dij>>
BinRuns == impl = "Binary" /\ ~bin.crashed /\ UNCHANGED <<impl, fib, dij>>

Insert(h) ==
  /\ FibRuns
  /\ fib.nalloc < MaxNodes
  /\ \E k \in Key :
       LET F == insert(fib, h, k)
       IN /\ fib' = Settle(F)
          /\ last' = Call("insert", h, F.nalloc, k, 0, F.crashed)

FindMinimum(h) ==
  /\ FibRuns
  /\ IF get_minimum(fib, h) = NULL
       THEN /\ fib' = Settle(Crash(fib))
            /\ last' = Call("find_minimum", h, NULL, 0, 0, TRUE)
       ELSE /\ fib' = fib
            /\ last' = Call("find_minimum", h, fib.minimum[h], 0,
                            fib.key[fib.minimum[h]], FALSE)

\* delete_minimum() returns the key: the caller lets go of the node taken out
DeleteMinimum(h) ==
  /\ FibRuns
  /\ \E u \in UB :
       LET F == delete_minimum(fib, h, u)
           d == fib.minimum[h]
       IN /\ fib' = Settle(F)
          /\ last' = Call("delete_minimum", h, d, 0,
                          IF d = NULL THEN 0 ELSE fib.key[d], F.crashed)

\* remove_minimum() returns the node: the caller keeps it
RemoveMinimum(h) ==
  /\ FibRuns
  /\ \E u \in UB :
       LET F == remove_minimum(fib, h, u)
           d == fib.minimum[h]
       IN /\ fib' = Settle(F)
          /\ last' = Call("remove_minimum", h, d, 0,
                          IF d = NULL THEN 0 ELSE fib.key[d], F.crashed)

DecreaseKey(h) ==
  /\ FibRuns
  /\ \E n \in Usable(fib, h), k \in Key :
       LET F == decrease_key(fib, h, n, k)
       IN /\ fib' = Settle(F)
          /\ last' = IF key_increased(fib, n, k)
                       THEN Thrown("decrease_key", h, n, k)
                       ELSE Call("decrease_key", h, n, k, 0, F.crashed)

\* remove(node): afterwards the caller keeps the handle or lets go of it
Remove(h) ==
  /\ FibRuns
  /\ \E n \in Usable(fib, h), u \in UB, keep \in BOOLEAN :
       LET F == remove(fib, h, n, u)
       IN /\ fib' = Settle([F EXCEPT !.held = IF keep THEN @ ELSE @ \ {n}])
          /\ last' = Call("remove", h, n, 0, 0, F.crashed)

MergeCopy(a, b) ==
  /\ FibRuns
  /\ fib.merges < MaxMerges
  /\ LET F == [merge_copy(fib, a, b) EXCEPT !.merges = @ + 1]
     IN /\ fib' = Settle(F)
        /\ last' = Call("merge_copy", a, NULL, 0, 0, F.crashed)

MergeMove(a, b) ==
  /\ FibRuns
  /\ fib.merges < MaxMerges
  /\ LET F == [merge_move(fib, a, b) EXCEPT !.merges = @ + 1]
     IN /\ fib' = Settle(F)
        /\ last' = Call("merge_move", a, NULL, 0, 0, F.crashed)

BinInsert(h) ==
  /\ BinRuns
  /\ bin.nalloc < MaxNodes
  /\ \E k \in Key :
       LET B == bin_insert(bin, h, k)
       IN /\ bin' = BinSettle(B)
          /\ last' = Call("insert", h, B.nalloc, k, 0, FALSE)

BinFindMinimum(h) ==
  /\ BinRuns
  /\ IF bin_get_minimum(bin, h) = NULL
       THEN /\ bin' = BinSettle([bin EXCEPT !.crashed = TRUE])
            /\ last' = Call("find_minimum", h, NULL, 0, 0, TRUE)
       ELSE /\ bin' = bin
            /\ last' = Call("find_minimum", h, bin_get_minimum(bin, h), 0,
                            bin.key[bin_get_minimum(bin, h)], FALSE)

BinDeleteMinimum(h) ==
  /\ BinRuns
  /\ LET B == bin_remove_minimum(bin, h)
         d == bin_removed_node(bin, h)
     IN /\ bin' = BinSettle(B)
        /\ last' = Call("delete_minimum", h, d, 0,
                        IF d = NULL THEN 0 ELSE bin.key[d], B.crashed)

BinDecreaseKey(h) ==
  /\ BinRuns
  /\ \E n \in Usable(bin, h), k \in Key :
       LET B == bin_decrease_key(bin, h, n, k)
       IN /\ bin' = BinSettle(B)
          /\ last' = IF bin_key_increased(bin, n, k)
                       THEN Thrown("decrease_key", h, n, k)
                       ELSE Call("decrease_key", h, n, k, 0, FALSE)

BinRemove(h) ==
  /\ BinRuns
  /\ \E n \in Usable(bin, h) :
       LET B == bin_remove(bin, h, n)
       IN /\ bin' = BinSettle(B)
          /\ last' = Call("remove", h, n, 0, 0, B.crashed)

BinMergeCopy(a, b) ==
  /\ BinRuns
  /\ bin.merges < MaxMerges
  /\ bin' = BinSettle([bin_merge_copy(bin, a, b) EXCEPT !.merges = @ + 1])
  /\ last' = Call("merge_copy", a, NULL, 0, 0, FALSE)

BinMergeMove(a, b) ==
  /\ BinRuns
  /\ bin.merges < MaxMerges
  /\ bin' = BinSettle([bin_merge_move(bin, a, b) EXCEPT !.merges = @ + 1])
  /\ last' = Call("merge_move", a, NULL, 0, 0, FALSE)

\* one heap, every operation but merge
Next ==
  \/ Insert(1)
  \/ FindMinimum(1)
  \/ DeleteMinimum(1)
  \/ RemoveMinimum(1)
  \/ DecreaseKey(1)
  \/ Remove(1)
  \/ BinInsert(1)
  \/ BinFindMinimum(1)
  \/ BinDeleteMinimum(1)
  \/ BinDecreaseKey(1)
  \/ BinRemove(1)

Spec == Init /\ [][Next]_vars

\* a client that merges once more after its merges: a.merge(b) or a.merge(std::move(b))
MergeOnceMore(a, b) ==
  /\ FibRuns
  /\ fib.merges = MaxMerges
  /\ \E moved \in BOOLEAN :
       LET F == [(IF moved THEN merge_move(fib, a, b) ELSE merge_copy(fib, a, b))
                   EXCEPT !.merges = @ + 1]
       IN /\ fib' = Settle(F)
          /\ last' = Call(IF moved THEN "merge_move" ELSE "merge_copy", a, NULL, 0, 0,
                          F.crashed)

\* two Fibonacci heaps: heap 2 is moved into heap 1, used again, and merged again
InitRemerge ==
  /\ impl = "Fibonacci"
  /\ fib = EmptyFib
  /\ bin = EmptyBin
  /\ last = NoCall
  /\ dij = NoRun

NextRemerge ==
  \/ Insert(1)
  \/ Insert(2)
  \/ DeleteMinimum(2)
  \/ MergeMove(1, 2)
  \/ MergeOnceMore(1, 2)

SpecRemerge == InitRemerge /\ [][NextRemerge]_vars

\* one heap instantiated with std::greater<K> as its Comparator: inserts,
\* extract-mins, decrease-keys, find_minimum
InitReverse ==
  /\ impl \in {"Fibonacci", "Binary"}
  /\ fib = [EmptyFib EXCEPT !.order = "greater"]
  /\ bin = [EmptyBin EXCEPT !.order = "greater"]
  /\ last = NoCall
  /\ dij = NoRun

NextReverse ==
  \/ Insert(1)
  \/ FindMinimum(1)
  \/ DeleteMinimum(1)
  \/ DecreaseKey(1)
  \/ BinInsert(1)
  \/ BinFindMinimum(1)
  \/ BinDeleteMinimum(1)
  \/ BinDecreaseKey(1)

SpecReverse == InitReverse /\ [][NextReverse]_vars

\* two heaps of one kind: built by insert and delete_minimum, then merged
NextMerge ==
  \/ Insert(1)
  \/ Insert(2)
  \/ DeleteMinimum(1)
  \/ DeleteMinimum(2)
  \/ MergeCopy(1, 2)
  \/ MergeMove(1, 2)
  \/ BinInsert(1)
  \/ BinInsert(2)
  \/ BinDeleteMinimum(1)
  \/ BinDeleteMinimum(2)
  \/ BinMergeCopy(1, 2)
  \/ BinMergeMove(1, 2)

SpecMerge == Init /\ [][NextMerge]_vars

\* a Fibonacci heap constructed from a list of keys, then emptied step by step
InitListed ==
  /\ impl = "Fibonacci"
  /\ \E len \in 0..MaxListed : \E keys \in [1..len -> Key] : fib = Constructed(keys)
  /\ bin = EmptyBin
  /\ last = NoCall
  /\ dij = NoRun

NextListed ==
  \/ FindMinimum(1)
  \/ DeleteMinimum(1)
  \/ RemoveMinimum(1)

SpecListed == InitListed /\ [][NextListed]_vars

\* a Fibonacci heap grown by MaxGrown inserts whose handles the caller keeps; then one
\* delete_minimum and, after it, one decrease_key
RECURSIVE grown(_, _)
grown(keys, i) == IF i = 0 THEN EmptyFib ELSE insert(grown(keys, i - 1), 1, keys[i])

InitGrown ==
  /\ impl = "Fibonacci"
  /\ \E keys \in [1..MaxGrown -> Key] : fib = grown(keys, MaxGrown)
  /\ bin = EmptyBin
  /\ last = NoCall
  /\ dij = NoRun

GrownDeleteMinimum == last.op = "none" /\ DeleteMinimum(1)
GrownDecreaseKey == last.op = "delete_minimum" /\ DecreaseKey(1)

NextGrown == GrownDeleteMinimum \/ GrownDecreaseKey

SpecGrown == InitGrown /\ [][NextGrown]_vars

\* a Binary heap that is also given the least key of key_type:
\* insert(std::numeric_limits<key_type>::lowest())
BinInsertLowest(h) ==
  /\ BinRuns
  /\ bin.nalloc < MaxNodes
  /\ LET B == bin_insert(bin, h, LOWEST)
     IN /\ bin' = BinSettle(B)
        /\ last' = Call("insert", h, B.nalloc, LOWEST, 0, FALSE)

InitLowest ==
  /\ impl = "Binary"
  /\ fib = EmptyFib
  /\ bin = EmptyBin
  /\ last = NoCall
  /\ dij = NoRun

NextLowest ==
  \/ BinInsert(1)
  \/ BinInsertLowest(1)
  \/ BinFindMinimum(1)
  \/ BinDecreaseKey(1)
  \/ BinRemove(1)

SpecLowest == InitLowest /\ [][NextLowest]_vars

\* two Binary heaps: the first constructed from a list of one key or more, the second
\* filled by insert, then every operation
InitBinary ==
  /\ impl = "Binary"
  /\ fib = EmptyFib
  /\ \E len \in 1..MaxNodes : \E keys \in [1..len -> Key] : bin = bin_constructed(keys)
  /\ last = NoCall
  /\ dij = NoRun

NextBinary ==
  \/ BinInsert(2)
  \/ BinFindMinimum(1)
  \/ BinDeleteMinimum(1)
  \/ BinDeleteMinimum(2)
  \/ BinDecreaseKey(1)
  \/ BinDecreaseKey(2)
  \/ BinRemove(1)
  \/ BinRemove(2)
  \/ BinMergeCopy(1, 2)
  \/ BinMergeMove(1, 2)

SpecBinary == InitBinary /\ [][NextBinary]_vars

\* a client that makes every call on a heap::Fibonacci and on a heap::Binary alike;
\* the n-th insert of either heap returns the handle n.  last holds what the Fibonacci
\* heap answered (ret, outcome) and what the Binary heap answered (bin_ret, bin_outcome)
Both(f, b) ==
  [op |-> f.op, heap |-> f.heap, node |-> f.node, key |-> f.key, ret |-> f.ret,
   outcome |-> f.outcome, bin_ret |-> b.ret, bin_outcome |-> b.outcome]

InitBoth ==
  /\ impl = "Both"
  /\ fib = EmptyFib
  /\ bin = EmptyBin
  /\ last = Both(NoCall, NoCall)
  /\ dij = NoRun

BothRun == impl = "Both" /\ ~fib.crashed /\ ~bin.crashed /\ UNCHANGED <<impl, dij>>

\* the handles the client may use: those alive in both heaps
BothUsable == Usable(fib, 1) \cap Usable(bin, 1)

BothInsert ==
  /\ BothRun
  /\ fib.nalloc < MaxNodes
  /\ \E k \in Key :
       LET F == insert(fib, 1, k)
           B == bin_insert(bin, 1, k)
       IN /\ fib' = Settle(F)
          /\ bin' = BinSettle(B)
          /\ last' = Both(Call("insert", 1, F.nalloc, k, 0, F.crashed),
                          Call("insert", 1, B.nalloc, k, 0, FALSE))

BothFindMinimum ==
  /\ BothRun
  /\ LET f == get_minimum(fib, 1)
         b == bin_get_minimum(bin, 1)
     IN /\ fib' = IF f = NULL THEN Settle(Crash(fib)) ELSE fib
        /\ bin' = IF b = NULL THEN BinSettle([bin EXCEPT !.crashed = TRUE]) ELSE bin
        /\ last' = Both(Call("find_minimum", 1, f, 0,
                             IF f = NULL THEN 0 ELSE fib.key[f], f = NULL),
                        Call("find_minimum", 1, b, 0,
                             IF b = NULL THEN 0 ELSE bin.key[b], b = NULL))

BothDeleteMinimum ==
  /\ BothRun
  /\ \E u \in UB :
       LET F == delete_minimum(fib, 1, u)
           f == fib.minimum[1]
           B == bin_remove_minimum(bin, 1)
           b == bin_removed_node(bin, 1)
       IN /\ fib' = Settle(F)
          /\ bin' = BinSettle(B)
          /\ last' = Both(Call("delete_minimum", 1, f, 0,
                               IF f = NULL THEN 0 ELSE fib.key[f], F.crashed),
                          Call("delete_minimum", 1, b, 0,
                               IF b = NULL THEN 0 ELSE bin.key[b], B.crashed))

BothDecreaseKey ==
  /\ BothRun
  /\ \E n \in BothUsable, k \in Key :
       LET F == decrease_key(fib, 1, n, k)
           B == bin_decrease_key(bin, 1, n, k)
       IN /\ fib' = Settle(F)
          /\ bin' = BinSettle(B)
          /\ last' = Both(IF key_increased(fib, n, k)
                            THEN Thrown("decrease_key", 1, n, k)
                            ELSE Call("decrease_key", 1, n, k, 0, F.crashed),
                          IF bin_key_increased(bin, n, k)
                            THEN Thrown("decrease_key", 1, n, k)
                            ELSE Call("decrease_key", 1, n, k, 0, FALSE))

BothRemove ==
  /\ BothRun
  /\ \E n \in BothUsable, u \in UB, keep \in BOOLEAN :
       LET F == remove(fib, 1, n, u)
           B == bin_remove(bin, 1, n)
       IN /\ fib' = Settle([F EXCEPT !.held = IF keep THEN @ ELSE @ \ {n}])
          /\ bin' = BinSettle(B)
          /\ last' = Both(Call("remove", 1, n, 0, 0, F.crashed),
                          Call("remove", 1, n, 0, 0, B.crashed))

NextBoth ==
  \/ BothInsert
  \/ BothFindMinimum
  \/ BothDeleteMinimum
  \/ BothDecreaseKey
  \/ BothRemove

SpecBoth == InitBoth /\ [][NextBoth]_vars

\* ------------------------------------------------------------- graph::dijkstra
\* Graph is std::vector<std::vector<Edge>>: G[u] is the list of the edges leaving u,
\* each an Edge {key, weight}.  Vertices are numbered from 0.
Vertex == 0..(MaxVertices - 1)
Weight == 0..MaxWeight
ABSENT == 0 - 1
\* the source and the destination a caller passes: a vertex, or the first index that
\* is none
Index == 0..MaxVertices

\* parent[v] of a vertex without parent, and d[v] of a vertex not reached: a key that
\* is no vertex and a weight above the weight of every path
InvalidKey == 0 - 1
Infinity == 1 + Len(Candidates) * MaxWeight

\* the graph that holds the candidate edges c gives a weight to
GraphOf(c) ==
  [u \in Vertex |->
     LET idx == SelectSeq([i \in 1..Len(Candidates) |-> i],
                          LAMBDA i : Candidates[i][1] = u /\ c[i] # ABSENT)
     IN [j \in 1..Len(idx) |-> [key |-> Candidates[idx[j]][2], weight |-> c[idx[j]]]]]

\* each candidate edge is absent or has a weight
Choices == [1..Len(Candidates) -> {ABSENT} \cup Weight]

\* the locals of dijkstra: d, parent and the queue Q (a heap of Edge ordered by
\* weight, in fib or in bin); vert[n] is the vertex of the Edge held by node n.
\* outcome: "run" while the function runs, "crash" after undefined behaviour.
StartRun(G) ==
  [ d |-> [v \in DOMAIN G |-> Infinity],
    parent |-> [v \in DOMAIN G |-> InvalidKey],
    fib |-> EmptyFib,
    bin |-> EmptyBin,
    vert |-> << >>,
    outcome |-> "run" ]

\* Q.empty()
QEmpty(I, R) == IF I = "Fibonacci" THEN empty(R.fib, 1) ELSE bin_empty(R.bin, 1)

\* the node Q.find_minimum() reads, NULL when the heap has none to offer
QMinimum(I, R) ==
  IF I = "Fibonacci" THEN get_minimum(R.fib, 1) ELSE bin_get_minimum(R.bin, 1)

\* Q.insert(Edge{v, w}); the handle returned is dropped
QInsert(I, R, v, w) ==
  IF Len(R.vert) >= NodeSpace THEN [R EXCEPT !.outcome = "overrun"]
  ELSE IF I = "Fibonacci"
    THEN LET F == insert(R.fib, 1, w)
         IN [R EXCEPT !.fib = F, !.vert = Append(@, v),
                      !.outcome = IF F.crashed THEN "crash" ELSE @]
    ELSE [R EXCEPT !.bin = bin_insert(R.bin, 1, w), !.vert = Append(@, v)]

\* Q.delete_minimum()
QDeleteMinimum(I, R, u) ==
  IF I = "Fibonacci"
    THEN LET F == delete_minimum(R.fib, 1, u)
         IN [R EXCEPT !.fib = F, !.outcome = IF F.crashed THEN "crash" ELSE @]
    ELSE LET B == bin_remove_minimum(R.bin, 1)
         IN [R EXCEPT !.bin = B, !.outcome = IF B.crashed THEN "crash" ELSE @]

\* the for loop over G[x] from edge i on (dijkstra.hpp:56-64)
RECURSIVE relax(_, _, _, _, _)
relax(I, G, x, R, i) ==
  IF R.outcome # "run" \/ i > Len(G[x]) THEN R
  ELSE LET v == G[x][i].key
           w == G[x][i].weight
       IN IF R.d[v] > R.d[x] + w
            THEN relax(I, G, x,
                       QInsert(I, [R EXCEPT !.d[v] = R.d[x] + w, !.parent[v] = x],
                               v, R.d[x] + w),
                       i + 1)
            ELSE relax(I, G, x, R, i + 1)

\* the walk over parent[] from the destination (dijkstra.hpp:68-69)
RECURSIVE path_walk(_, _, _, _)
path_walk(parent, p, path, fuel) ==
  IF parent[p] = InvalidKey \/ fuel = 0 THEN path
  ELSE path_walk(parent, parent[p], Append(path, p), fuel - 1)

Reverse(s) == [i \in 1..Len(s) |-> s[Len(s) + 1 - i]]

\* the walk with path.push_back(destination) in the place of push_back(source)
reconstruct_to_destination(parent, source, destination) ==
  Reverse(Append(path_walk(parent, destination, << >>, MaxVertices + 1), destination))

\* the path returned: the walk, then the source, reversed (dijkstra.hpp:67-74)
reconstruct(parent, source, destination) ==
  Reverse(Append(path_walk(parent, destination, << >>, MaxVertices + 1), source))

\* the locals of the call in progress, and the call after its locals became R
Locals ==
  [ d |-> dij.d, parent |-> dij.parent, fib |-> fib, bin |-> bin,
    vert |-> dij.vert, outcome |-> "run" ]

Becomes(R) ==
  /\ fib' = R.fib
  /\ bin' = R.bin
  /\ dij' = [dij EXCEPT !.d = R.d, !.parent = R.parent, !.vert = R.vert,
                        !.outcome = R.outcome]
  /\ UNCHANGED <<impl, last>>

Returns(path) ==
  /\ dij' = [dij EXCEPT !.path = path, !.outcome = "ok"]
  /\ UNCHANGED <<impl, fib, bin, last>>

\* a client that builds a graph, of MaxVertices vertices or of none, and asks for one
\* path
InitGraph ==
  /\ impl \in {"Fibonacci", "Binary"}
  /\ fib = EmptyFib
  /\ bin = EmptyBin
  /\ last = NoCall
  /\ \E s \in Index, t \in Index :
       \/ \E c \in Choices :
            dij = [NoRun EXCEPT !.graph = GraphOf(c), !.source = s, !.destination = t]
       \/ dij = [NoRun EXCEPT !.graph = << >>, !.source = s, !.destination = t]

\* the asserts with the second one left out
source_in_range == dij.source \in DOMAIN dij.graph

\* assert(source < G.size()); assert(destination < G.size()) (dijkstra.hpp:41-42)
in_range == dij.source \in DOMAIN dij.graph /\ dij.destination \in DOMAIN dij.graph

\* dijkstra<PriorityQueue>(G, source, destination) up to its loop: the asserts, the
\* tables d and parent, the queue with the source in it (dijkstra.hpp:41-50)
Enter ==
  /\ dij.outcome = "none"
  /\ IF ~in_range
       THEN /\ dij' = [dij EXCEPT !.outcome = "abort"]
            /\ UNCHANGED <<impl, fib, bin, last>>
       ELSE Becomes(QInsert(impl, [StartRun(dij.graph) EXCEPT !.d[dij.source] = 0],
                            dij.source, 0))

\* the loop without the break of line 54
NeverArrived == FALSE

\* u == destination for the vertex u of Q.find_minimum() (dijkstra.hpp:53-54)
Arrived ==
  /\ QMinimum(impl, Locals) # NULL
  /\ dij.vert[QMinimum(impl, Locals)] = dij.destination

\* one turn of the while loop: the minimum is not the destination, it leaves the
\* queue and its edges are relaxed (dijkstra.hpp:52-65); find_minimum() on a queue
\* with no minimum to show reads through a null pointer
Visit ==
  /\ dij.outcome = "run"
  /\ ~QEmpty(impl, Locals)
  /\ IF QMinimum(impl, Locals) = NULL
       THEN /\ dij' = [dij EXCEPT !.outcome = "crash"]
            /\ UNCHANGED <<impl, fib, bin, last>>
       ELSE /\ ~Arrived
            /\ \E u \in UB :
                 Becomes(relax(impl, dij.graph, dij.vert[QMinimum(impl, Locals)],
                               QDeleteMinimum(impl, Locals, u), 1))

\* the loop ends, on an empty queue or on the destination, and the path is built
\* and returned (dijkstra.hpp:52-54, 67-74)
Leave ==
  /\ dij.outcome = "run"
  /\ (QEmpty(impl, Locals) \/ Arrived)
  /\ Returns(reconstruct(dij.parent, dij.source, dij.destination))

NextGraph ==
  \/ Enter
  \/ Visit
  \/ Leave

SpecGraph == InitGraph /\ [][NextGraph]_vars

\* ------------------------------------------------------------- observations
\* the nodes in heap h: those reached from the root list through children lists
RECURSIVE Reach(_, _)
Reach(F, S) ==
  LET S2 == S \cup UNION {Range(F.children[n]) : n \in S}
  IN IF S2 = S THEN S ELSE Reach(F, S2)
InHeap(F, h) == Reach(F, Range(F.trees[h]))
BinInHeap(B, h) == Range(B.heap[h])

\* the multiset of keys stored in heap h: how many nodes carry each key
FibKeys(F, h) == [k \in Key |-> Cardinality({n \in InHeap(F, h) : F.key[n] = k})]
BinKeys(B, h) == [k \in Key |-> Cardinality({n \in BinInHeap(B, h) : B.key[n] = k})]

FibCalled(ops) == impl = "Fibonacci" /\ last'.op \in ops
BinCalled(ops) == impl = "Binary" /\ last'.op \in ops

\* ------------------------------------------------------------- C1
\* C1: whenever the Fibonacci heap is non-empty, find_minimum() returns a key that no
\* node in the heap (root or not) undercuts
C1_FindMinIsLeast ==
  (impl = "Fibonacci" /\ ~fib.crashed /\ ~empty(fib, 1)) =>
     /\ get_minimum(fib, 1) # NULL
     /\ \A n \in InHeap(fib, 1) : fib.key[get_minimum(fib, 1)] <= fib.key[n]

\* ------------------------------------------------------------- C2
FibExtractedMin ==
  /\ last'.outcome = "ok"
  /\ get_minimum(fib, 1) # NULL
  /\ last'.ret = fib.key[get_minimum(fib, 1)]
  /\ FibKeys(fib', 1) = [FibKeys(fib, 1) EXCEPT ![last'.ret] = @ - 1]
BinExtractedMin ==
  /\ last'.outcome = "ok"
  /\ last'.ret = bin.key[bin_get_minimum(bin, 1)]
  /\ BinKeys(bin', 1) = [BinKeys(bin, 1) EXCEPT ![last'.ret] = @ - 1]

\* C2: on a non-empty heap (Fibonacci and Binary) delete_minimum()/remove_minimum()
\* returns the key find_minimum() returned just before, takes exactly one node with
\* that key out and leaves the multiset of the other keys as it was
C2_ExtractsMin ==
  [][/\ (FibCalled({"delete_minimum", "remove_minimum"}) /\ ~empty(fib, 1))
          => FibExtractedMin
     /\ (BinCalled({"delete_minimum", "remove_minimum"}) /\ ~bin_empty(bin, 1))
          => BinExtractedMin]_vars

\* ------------------------------------------------------------- C3
\* the call made in this step returned and met no undefined behaviour
FibDefined == last'.outcome # "crash" /\ ~fib'.tainted

RemovedExactly(n) ==
  /\ get_minimum(Floated(fib, 1, n), 1) = n
  /\ n \in Range(Floated(fib, 1, n).trees[1])
  /\ n \notin InHeap(fib', 1)
  /\ InHeap(fib', 1) = InHeap(fib, 1) \ {n}
  /\ size(fib', 1) = size(fib, 1) - 1

\* C3: remove(h) of the Fibonacci heap on a live handle h (the minimum, another root,
\* a non-root with a key above its parent's) cuts h to the root list and makes it the
\* minimum before the extract phase, and afterwards h alone has left the heap and
\* size() is one less; stated for the calls that meet no undefined behaviour
C3_RemoveTakesNodeOut ==
  [][(FibCalled({"remove"}) /\ FibDefined) => RemovedExactly(last'.node)]_vars

\* ------------------------------------------------------------- C4
Sorted(s) == \A i \in 1..(Len(s) - 1) : s[i] <= s[i + 1]

\* delete_minimum() until empty(): the keys returned, and whether every call returned
RECURSIVE FibDrain(_, _, _, _, _)
FibDrain(F, h, u, out, fuel) ==
  IF F.crashed \/ fuel = 0 THEN [keys |-> out, done |-> FALSE]
  ELSE IF empty(F, h) THEN [keys |-> out, done |-> TRUE]
  ELSE IF get_minimum(F, h) = NULL THEN [keys |-> out, done |-> FALSE]
  ELSE FibDrain(Settle(delete_minimum(F, h, u)), h, u,
                Append(out, F.key[get_minimum(F, h)]), fuel - 1)

RECURSIVE BinDrain(_, _, _, _)
BinDrain(B, h, out, fuel) ==
  IF B.crashed \/ fuel = 0 THEN [keys |-> out, done |-> FALSE]
  ELSE IF bin_empty(B, h) THEN [keys |-> out, done |-> TRUE]
  ELSE BinDrain(BinSettle(bin_remove_minimum(B, h)), h,
                Append(out, B.key[bin_get_minimum(B, h)]), fuel - 1)

DrainFuel == 2 * MaxNodes + 2

DrainsInOrder(d, n) == d.done /\ Len(d.keys) = n /\ Sorted(d.keys)

\* C4: from every state the heap can be brought to, delete_minimum() until empty()
\* completes every call, makes exactly size() calls and returns the keys in
\* non-decreasing order
C4_DrainSorted ==
  /\ (impl = "Fibonacci" /\ ~fib.crashed) =>
       \A u \in UB : DrainsInOrder(FibDrain(fib, 1, u, << >>, DrainFuel), size(fib, 1))
  /\ (impl = "Binary" /\ ~bin.crashed) =>
       DrainsInOrder(BinDrain(bin, 1, << >>, DrainFuel), bin_size(bin, 1))

\* ------------------------------------------------------------- C5
\* C5: find_minimum() and delete_minimum()/remove_minimum() on a heap of size() 0
\* (Fibonacci and Binary) report Empty and leave the heap as it was
C5_EmptyReported ==
  [][/\ (FibCalled({"find_minimum", "delete_minimum", "remove_minimum"})
           /\ size(fib, 1) = 0) => (last'.outcome = "Empty" /\ fib' = fib)
     /\ (BinCalled({"find_minimum", "delete_minimum", "remove_minimum"})
           /\ bin_size(bin, 1) = 0) => (last'.outcome = "Empty" /\ bin' = bin)]_vars

\* ------------------------------------------------------------- C6
KeyBefore(n) == IF impl = "Fibonacci" THEN fib.key[n] ELSE bin.key[n]

\* C6: decrease_key(h, k) with k above the current key of h fails with KeyIncreased
\* and leaves the whole heap state (keys, structure, marks, minimum, size) unchanged
C6_KeyIncreasedRejected ==
  [][(last'.op = "decrease_key" /\ last'.key > KeyBefore(last'.node))
        => (last'.outcome = "KeyIncreased" /\ fib' = fib /\ bin' = bin)]_vars

\* a rejected decrease_key on a non-root node of a Fibonacci heap
C6_Rejected ==
  /\ last.op = "decrease_key" /\ last.outcome = "KeyIncreased"
  /\ impl = "Fibonacci" /\ ~is_root(fib, last.node)
  /\ last.key > fib.key[last.node]

\* ------------------------------------------------------------- C7
FibKeyLowered(n, k) ==
  /\ last'.outcome = "ok"
  /\ fib'.key[n] = k
  /\ \A m \in InHeap(fib, 1) \ {n} : fib'.key[m] = fib.key[m]
  /\ InHeap(fib', 1) = InHeap(fib, 1)
  /\ size(fib', 1) = size(fib, 1)
  /\ n \in Range(fib.trees[1]) =>
       (fib'.trees[1] = fib.trees[1] /\ fib'.children = fib.children)
BinKeyLowered(n, k) ==
  /\ last'.outcome = "ok"
  /\ bin'.key[n] = k
  /\ \A m \in BinInHeap(bin, 1) \ {n} : bin'.key[m] = bin.key[m]
  /\ BinInHeap(bin', 1) = BinInHeap(bin, 1)
  /\ bin_size(bin', 1) = bin_size(bin, 1)

\* C7: decrease_key(h, k) on a live handle with k not above the key of h sets the key
\* of h alone to k; no node enters or leaves, size() stays, and when h is a root the
\* root list and every children list stay as they were
C7_DecreaseKeyFrame ==
  [][/\ (FibCalled({"decrease_key"}) /\ last'.key <= fib.key[last'.node])
          => FibKeyLowered(last'.node, last'.key)
     /\ (BinCalled({"decrease_key"}) /\ last'.key <= bin.key[last'.node])
          => BinKeyLowered(last'.node, last'.key)]_vars

\* ------------------------------------------------------------- C8
KeysSum(f, g) == [k \in Key |-> f[k] + g[k]]

FibAbsorbed ==
  /\ FibKeys(fib', 1) = KeysSum(FibKeys(fib, 1), FibKeys(fib, 2))
  /\ size(fib', 2) = 0 /\ empty(fib', 2)
  /\ fib'.trees[2] = << >> /\ get_minimum(fib', 2) = NULL
BinAbsorbed ==
  /\ BinKeys(bin', 1) = KeysSum(BinKeys(bin, 1), BinKeys(bin, 2))
  /\ bin_size(bin', 2) = 0 /\ bin_empty(bin', 2)
  /\ bin_get_minimum(bin', 2) = NULL

\* C8: after a.merge(std::move(b)) has returned, a holds the keys of both heaps and b
\* is empty: size 0, empty() true, no roots / nodes, no minimum
C8_MoveMergeEmptiesSource ==
  [][/\ (FibCalled({"merge_move"}) /\ last'.outcome = "ok") => FibAbsorbed
     /\ (BinCalled({"merge_move"}) /\ last'.outcome = "ok") => BinAbsorbed]_vars

\* ------------------------------------------------------------- C9
FibUntouched ==
  /\ last'.outcome = "ok"
  /\ size(fib', 1) = size(fib, 1) /\ get_minimum(fib', 1) = get_minimum(fib, 1)
  /\ fib'.trees[1] = fib.trees[1] /\ fib'.children = fib.children
  /\ fib'.key = fib.key
BinUntouched ==
  /\ last'.outcome = "ok"
  /\ bin'.heap[1] = bin.heap[1]
  /\ bin'.key = bin.key

\* C9: h.merge(e) with e.size() = 0, by copy or by move, completes and leaves h's
\* size, minimum, root list / node array and keys exactly as they were
C9_MergeEmptyIsNoOp ==
  [][/\ (FibCalled({"merge_copy", "merge_move"}) /\ size(fib, 2) = 0) => FibUntouched
     /\ (BinCalled({"merge_copy", "merge_move"}) /\ bin_size(bin, 2) = 0)
          => BinUntouched]_vars

\* ------------------------------------------------------------- C10
\* two separate well-formed heaps, as insert and delete_minimum build them
FibApart(F) ==
  /\ ~F.crashed /\ ~F.tainted
  /\ InHeap(F, 1) \cap InHeap(F, 2) = {}
  /\ \A h \in Heap :
       /\ size(F, h) = Cardinality(InHeap(F, h))
       /\ get_minimum(F, h) = search_minimum(F, h)
BinApart(B) == ~B.crashed /\ BinInHeap(B, 1) \cap BinInHeap(B, 2) = {}

\* C10: draining a.merge(b) and draining b.merge(a), from the same a and b, return
\* the same sequence of keys (both ways of merging, both kinds of heap)
C10_MergeCommutes ==
  /\ (impl = "Fibonacci" /\ FibApart(fib)) =>
       \A u \in UB :
         /\ FibDrain(Settle(merge_copy(fib, 1, 2)), 1, u, << >>, DrainFuel)
              = FibDrain(Settle(merge_copy(fib, 2, 1)), 2, u, << >>, DrainFuel)
         /\ FibDrain(Settle(merge_move(fib, 1, 2)), 1, u, << >>, DrainFuel)
              = FibDrain(Settle(merge_move(fib, 2, 1)), 2, u, << >>, DrainFuel)
  /\ (impl = "Binary" /\ BinApart(bin)) =>
       /\ BinDrain(BinSettle(bin_merge_copy(bin, 1, 2)), 1, << >>, DrainFuel)
            = BinDrain(BinSettle(bin_merge_copy(bin, 2, 1)), 2, << >>, DrainFuel)
       /\ BinDrain(BinSettle(bin_merge_move(bin, 1, 2)), 1, << >>, DrainFuel)
            = BinDrain(BinSettle(bin_merge_move(bin, 2, 1)), 2, << >>, DrainFuel)

\* ------------------------------------------------------------- C11
\* h hangs in the children list of its parent and in no root list
FibNonRoot(F, n) ==
  /\ ~is_root(F, n)
  /\ n \in Range(F.children[F.parent[n]])
  /\ n \notin Range(F.trees[1])

FibForestKept ==
  /\ last'.outcome = "ok"
  /\ fib'.trees = fib.trees
  /\ fib'.children = fib.children
  /\ fib'.parent = fib.parent
  /\ fib'.marked = fib.marked

\* C11: Fibonacci decrease_key(h, k) on a non-root h with key(parent(h)) <= k <= key(h)
\* (k = key(h) included) leaves the root list, every children list, every parent
\* reference and every mark bit as they were: nothing is cut
C11_NoCutWhenOrderKept ==
  [][(/\ FibCalled({"decrease_key"})
      /\ FibNonRoot(fib, last'.node)
      /\ last'.key <= fib.key[last'.node]
      /\ fib.key[fib.parent[last'.node]] <= last'.key) => FibForestKept]_vars

\* ------------------------------------------------------------- C12
\* what the call made in this step adds to the number of keys heap h was given minus
\* the number taken out of it; other is size() of the merged heap before the call
SizeDelta(h, other) ==
  IF last'.heap # h THEN 0
  ELSE IF last'.op = "insert" THEN 1
  ELSE IF last'.op \in {"delete_minimum", "remove_minimum", "remove"} THEN 0 - 1
  ELSE IF last'.op \in {"merge_copy", "merge_move"} THEN other
  ELSE 0

\* C12: size() is the number of keys the heap was given (insert calls, elements
\* absorbed by merge) minus the number of delete_minimum/remove_minimum and remove
\* calls, and empty() is true exactly when size() = 0.  Both sides are 0 in an empty
\* heap, so the claim is that every call that returns moves size() as it moves the
\* count, for both kinds of heap
C12_SizeCountsCalls ==
  [][/\ (impl = "Fibonacci" /\ last'.outcome = "ok") =>
          \A h \in Heap :
            /\ size(fib', h) = size(fib, h) + SizeDelta(h, size(fib, 2))
            /\ empty(fib', h) <=> size(fib', h) = 0
     /\ (impl = "Binary" /\ last'.outcome = "ok") =>
          \A h \in Heap :
            /\ bin_size(bin', h) = bin_size(bin, h) + SizeDelta(h, bin_size(bin, 2))
            /\ bin_empty(bin', h) <=> bin_size(bin', h) = 0]_vars

\* ------------------------------------------------------------- C13
\* C13: in the Fibonacci heap every node that hangs in a children list has a key not
\* below the key of the node whose list it is (its parent), after any sequence of
\* calls made with live handles
C13_HeapOrder ==
  (impl = "Fibonacci" /\ ~fib.crashed) =>
     \A p \in InHeap(fib, 1) : \A v \in Range(fib.children[p]) :
        fib.parent[v] = p /\ fib.key[p] <= fib.key[v]

\* ------------------------------------------------------------- C14
MinimumPlaced(F, h) ==
  /\ get_minimum(F, h) = NULL <=> size(F, h) = 0
  /\ get_minimum(F, h) # NULL =>
       /\ get_minimum(F, h) \in Range(F.trees[h])
       /\ \A r \in Range(F.trees[h]) : F.key[get_minimum(F, h)] <= F.key[r]

\* C14: after every public operation of the Fibonacci heap the minimum pointer is
\* null exactly when size() = 0, and otherwise refers to a node of the root list whose
\* key no other root undercuts
C14_MinimumPointer ==
  (impl = "Fibonacci" /\ ~fib.crashed) => \A h \in Heap : MinimumPlaced(fib, h)

\* ------------------------------------------------------------- C15
RanksDistinct(F, h) ==
  \A i, j \in 1..Len(F.trees[h]) :
     i # j => rank(F, F.trees[h][i]) # rank(F, F.trees[h][j])

\* C15: right after every delete_minimum()/remove_minimum() of the Fibonacci heap,
\* the one run inside remove included, no two nodes of the root list have the same
\* number of children, whatever root list the heap held when the call started
C15_RootRanksDistinct ==
  [][(FibCalled({"delete_minimum", "remove_minimum", "remove"}) /\ last'.outcome = "ok")
        => RanksDistinct(fib', 1)]_vars

\* ------------------------------------------------------------- C16
\* C16: after any sequence of public operations no node of the root list of the
\* Fibonacci heap is marked; a marked child of the minimum is unmarked once
\* extract-min has promoted it to the root list
C16_RootsUnmarked ==
  (impl = "Fibonacci" /\ ~fib.crashed) =>
     \A r \in Range(fib.trees[1]) : ~fib.marked[r]

\* ------------------------------------------------------------- C17
\* how often node n stands in list s
Times(s, n) == Cardinality({i \in 1..Len(s) : s[i] = n})

RECURSIVE SumTimes(_, _, _)
SumTimes(F, S, n) ==
  IF S = {} THEN 0
  ELSE LET p == CHOOSE x \in S : TRUE
       IN Times(F.children[p], n) + SumTimes(F, S \ {p}, n)

\* the places node n has in heap h: in the root list and in the children lists
Places(F, h, n) == Times(F.trees[h], n) + SumTimes(F, InHeap(F, h), n)

\* C17: every node of the Fibonacci heap stands exactly once in the root list and the
\* children lists taken together, after any sequence of calls made with live handles
C17_OnePlacePerNode ==
  (impl = "Fibonacci" /\ ~fib.crashed) =>
     \A n \in InHeap(fib, 1) : Places(fib, 1, n) = 1

\* ------------------------------------------------------------- C18
\* the least weight of an edge from u to v, Infinity when there is none
EdgeWeight(G, u, v) ==
  LET ws == {G[u][i].weight : i \in {j \in 1..Len(G[u]) : G[u][j].key = v}}
  IN IF ws = {} THEN Infinity ELSE CHOOSE w \in ws : \A x \in ws : w <= x

Least(S) == CHOOSE w \in S : \A x \in S : w <= x

\* one more edge: the lightest weights known, improved through every edge
Relaxed(G, dist) ==
  [v \in DOMAIN G |->
     Least({dist[v]} \cup
           {dist[x] + EdgeWeight(G, x, v) :
              x \in {y \in DOMAIN G : dist[y] < Infinity
                                       /\ EdgeWeight(G, y, v) < Infinity}})]

\* the weights of the lightest paths from s that have at most n more edges
RECURSIVE Lightest(_, _, _)
Lightest(G, dist, n) ==
  IF n = 0 THEN dist
  ELSE LET next == Relaxed(G, dist)
       IN IF next = dist THEN dist ELSE Lightest(G, next, n - 1)

\* the weight of the lightest path from s to t, Infinity when t is not reachable
Distance(G, s, t) ==
  Lightest(G, [v \in DOMAIN G |-> IF v = s THEN 0 ELSE Infinity], MaxVertices)[t]

RECURSIVE PathWeight(_, _)
PathWeight(G, p) ==
  IF Len(p) < 2 THEN 0 ELSE EdgeWeight(G, p[1], p[2]) + PathWeight(G, Tail(p))

IsPath(G, p, s, t) ==
  /\ Len(p) >= 1 /\ p[1] = s /\ p[Len(p)] = t
  /\ \A i \in 1..(Len(p) - 1) : EdgeWeight(G, p[i], p[i + 1]) < Infinity

\* the call has passed its asserts and has ended
Ran == dij.outcome \notin {"none", "run", "abort"}

\* C18: when t is reachable from s, dijkstra returns, with either heap, a sequence of
\* vertices that starts with s, ends with t, follows edges of the graph and has the
\* least total weight among the paths from s to t
C18_ShortestPath ==
  (Ran /\ Distance(dij.graph, dij.source, dij.destination) < Infinity) =>
     /\ dij.outcome = "ok"
     /\ IsPath(dij.graph, dij.path, dij.source, dij.destination)
     /\ PathWeight(dij.graph, dij.path)
          = Distance(dij.graph, dij.source, dij.destination)

\* ------------------------------------------------------------- C19
Unreachable ==
  /\ Ran /\ dij.source # dij.destination
  /\ Distance(dij.graph, dij.source, dij.destination) >= Infinity

C20_UnreachableGivesSource ==
  Unreachable => (dij.outcome = "ok" /\ dij.path = <<dij.source>>)

\* ------------------------------------------------------------- C21
\* the tables and the queue as the call made them before its loop: no distance but
\* the source's is known, no vertex has a parent, the queue got the source alone
NothingRelaxed ==
  /\ dij.d = [v \in DOMAIN dij.graph |-> IF v = dij.source THEN 0 ELSE Infinity]
  /\ dij.parent = [v \in DOMAIN dij.graph |-> InvalidKey]
  /\ dij.vert = <<dij.source>>

\* C21: dijkstra called with source = destination (in range) returns the one-element
\* sequence [source] and relaxes no edge, with either heap, on every graph
C21_SameVertex ==
  (Ran /\ dij.source = dij.destination) =>
     (dij.outcome = "ok" /\ dij.path = <<dij.source>> /\ NothingRelaxed)

\* dijkstra has returned from a call with source = destination where the source has
\* outgoing edges and lies on a cycle
C21_OnCycle ==
  /\ Ran /\ dij.source = dij.destination /\ dij.outcome = "ok"
  /\ \E v \in DOMAIN dij.graph :
       /\ v # dij.source
       /\ EdgeWeight(dij.graph, dij.source, v) < Infinity
       /\ Distance(dij.graph, v, dij.source) < Infinity

\* ------------------------------------------------------------- C22
\* no table d or parent, no queue entry, no heap node and no path exist
NothingCreated ==
  /\ dij.d = << >> /\ dij.parent = << >> /\ dij.vert = << >> /\ dij.path = << >>
  /\ fib = EmptyFib /\ bin = EmptyBin

\* C22: dijkstra called with a source or a destination that is no index of the graph
\* (every call on an empty graph is one) aborts: the call ends in its asserts, before
\* d, parent or the queue exist, and returns no path
C22_OutOfRangeAborts ==
  [][(dij.outcome = "none" /\ ~(dij.source \in DOMAIN dij.graph
                                  /\ dij.destination \in DOMAIN dij.graph))
       => (dij'.outcome = "abort" /\ NothingCreated')]_vars

\* a call on the empty graph has aborted, and so has a call on a graph with edges
\* whose source is a vertex and whose destination is none
C22_Aborted ==
  /\ dij.outcome = "abort"
  /\ \/ dij.graph = << >>
     \/ /\ dij.source \in DOMAIN dij.graph
        /\ Len(dij.graph[dij.source]) > 0
        /\ dij.destination \notin DOMAIN dij.graph

\* ------------------------------------------------------------- C23
\* the min-heap shape of the node array of heap h (positions from 0)
BinShape(B, h) ==
  \A i \in 1..(Len(B.heap[h]) - 1) :
     B.key[At(B.heap[h], Half(i - 1))] <= B.key[At(B.heap[h], i)]

\* C23: after every public operation of heap::Binary (construction from a key list,
\* insert, merge, delete_minimum, decrease_key through a live handle, remove) the node
\* array of every heap has the min-heap shape: the key at position floor((i-1)/2) is
\* not above the key at position i > 0
C23_BinaryShape ==
  (impl = "Binary" /\ ~bin.crashed) => \A h \in Heap : BinShape(bin, h)

\* ------------------------------------------------------------- C24
\* C24: heap::Fibonacci and heap::Binary given the same calls (insert, find_minimum,
\* delete_minimum, decrease_key, remove; handles matched by insertion order) answer
\* alike: every call ends the same way in both (returns, or throws KeyIncreased),
\* find_minimum and delete_minimum return the same key, and size() and empty() agree
C24_SameAnswers ==
  impl = "Both" =>
     /\ last.outcome = last.bin_outcome
     /\ last.ret = last.bin_ret
     /\ (~fib.crashed /\ ~bin.crashed) =>
          /\ size(fib, 1) = bin_size(bin, 1)
          /\ empty(fib, 1) <=> bin_empty(bin, 1)

\* ------------------------------------------------------------- C25
\* the call op on heap h (remove: of node n) runs consolidate and consolidate reads or
\* writes root_with_rank at an index beyond the max_rank + 1 entries it was given
TableOverrun(F, op, h, n) ==
  LET G == [F EXCEPT !.tainted = FALSE]
  IN IF op = "remove" THEN remove(G, h, n, "benign").tainted
     ELSE remove_minimum(G, h, "benign").tainted

\* C25: whenever consolidate runs on a Fibonacci heap of n > 0 elements, reached by
\* inserts, extract-mins, decrease-keys and deletes without undefined behaviour, every
\* root it looks up or stores has rank at most floor(log2(n)): no access to the table of
\* floor(log2(n)) + 1 entries is out of bounds
C25_TableInBounds ==
  [][(FibCalled({"delete_minimum", "remove_minimum", "remove"}) /\ ~fib.tainted)
        => ~TableOverrun(fib, last'.op, last'.heap, last'.node)]_vars

\* ------------------------------------------------------------- C26
\* the loops of the consolidate that the call op on heap h (remove: of node n) of the
\* state F runs, up to the first undefined behaviour; start is the root list they begin with
Consolidation(F, op, h, n) ==
  LET P == IF op = "remove"
             THEN LET G == [Floated(F, h, n) EXCEPT !.gone = @ \cup {n}]
                  IN IF G.crashed THEN G ELSE remove_minimum_phase1(G, h)
             ELSE remove_minimum_phase1(F, h)
  IN IF P.crashed \/ P.num_elements[h] = 0
       THEN [ran |-> FALSE, start |-> << >>, log |-> << >>, finished |-> FALSE]
       ELSE LET L == consolidate_loops(P, h, "crash")
            IN [ran |-> TRUE, start |-> P.trees[h], log |-> L.log,
                finished |-> ~L.F.crashed]

Events(C, ev) == {i \in 1..Len(C.log) : C.log[i].ev = ev}

\* every entry in use at index r refers to a root of the list whose rank is r
TableMatchesRanks(C) ==
  \A i \in Events(C, "look") : \A e \in C.log[i].entries : e[2] # NULL /\ e[3] = e[1]

LinksEqualRanks(C) ==
  \A i \in Events(C, "link") :
     C.log[i].lhs # C.log[i].rhs /\ C.log[i].lrank = C.log[i].rrank

\* a run that comes to its end has started one pass for each root of the list it began with
EachRootOnce(C) ==
  C.finished =>
    \A p \in 1..Len(C.start) :
       Cardinality({i \in Events(C, "visit") : C.log[i].node = C.start[p]}) = 1

\* C26: during consolidate of the Fibonacci heap every non-empty entry of the rank table
\* at index r refers to a tree of the root list whose rank is r, link is only applied to
\* two distinct roots of equal rank, and every root present at the start is processed
\* exactly once
C26_TableTracksRanks ==
  [][(FibCalled({"delete_minimum", "remove_minimum", "remove"}) /\ ~fib.tainted) =>
        LET C == Consolidation(fib, last'.op, last'.heap, last'.node)
        IN TableMatchesRanks(C) /\ LinksEqualRanks(C) /\ EachRootOnce(C)]_vars

\* ------------------------------------------------------------- C27
\* the node in whose children list n hangs, NULL for a node that hangs nowhere
Up(F, n) ==
  IF n # NULL /\ \E p \in Node : n \in Range(F.children[p])
    THEN CHOOSE p \in Node : n \in Range(F.children[p])
    ELSE NULL

\* p and the consecutively marked non-root ancestors above it, bottom-up
RECURSIVE MarkedRun(_, _)
MarkedRun(F, p) ==
  IF Up(F, p) # NULL /\ F.marked[p] THEN <<p>> \o MarkedRun(F, Up(F, p)) ELSE << >>

\* the nodes the claim has decrease_key cut, in the order it cuts them
CutChain(F, n) == <<n>> \o MarkedRun(F, Up(F, n))
\* the ancestor the cascade stops at
CutStop(F, n) == Up(F, CutChain(F, n)[Len(CutChain(F, n))])

CutProtocol(n) ==
  LET chain == CutChain(fib, n)
      stop == CutStop(fib, n)
  IN /\ last'.outcome = "ok"
     /\ fib'.trees[1] = fib.trees[1] \o chain
     /\ \A q \in Node :
          fib'.children[q] = SelectSeq(fib.children[q], LAMBDA c : c \notin Range(chain))
     /\ \A c \in Range(chain) : fib'.parent[c] = NULL /\ ~fib'.marked[c]
     /\ \A q \in Node \ Range(chain) :
          /\ fib'.parent[q] = fib.parent[q]
          /\ fib'.marked[q] <=> (fib.marked[q] \/ (q = stop /\ Up(fib, stop) # NULL))

\* C27: Fibonacci decrease_key(h, k) that makes h smaller than its parent p cuts h (out
\* of p's children, to the end of the root list, unmarked, without parent); an unmarked
\* non-root p becomes marked and nothing else moves; a marked p and every consecutively
\* marked ancestor above it are cut, unmarked and appended bottom-up, and the first
\* unmarked non-root ancestor reached becomes marked
C27_CutProtocol ==
  [][(/\ FibCalled({"decrease_key"})
      /\ ~fib.tainted
      /\ last'.outcome # "KeyIncreased"
      /\ Up(fib, last'.node) # NULL
      /\ last'.key < fib.key[Up(fib, last'.node)]) => CutProtocol(last'.node)]_vars

\* ------------------------------------------------------------- C28
\* the nodes of the root list stay where they are, once each, and get no mark
RootsLeftAlone ==
  \A r \in Range(fib.trees[1]) :
     /\ Times(fib'.trees[1], r) = Times(fib.trees[1], r)
     /\ fib'.marked[r] => fib.marked[r]

\* C28: the cascading cut of the Fibonacci heap stops at a root: from every reachable
\* state, a decrease_key never cuts, marks or appends again a node that is already in
\* the root list, and never follows an absent parent reference (the call returns)
C28_CascadeStopsAtRoot ==
  [][(/\ FibCalled({"decrease_key"})
      /\ ~fib.tainted
      /\ last'.outcome # "KeyIncreased") => (last'.outcome = "ok" /\ RootsLeftAlone)]_vars

\* ------------------------------------------------------------- C29
\* C29: in the Fibonacci heap a node that becomes a child through link is unmarked at
\* that moment, so that a non-root node carries a mark only for a child it has lost
\* since it was attached to its parent
C29_LinkedUnmarked ==
  [][(FibCalled({"delete_minimum", "remove_minimum", "remove"}) /\ ~fib.tainted) =>
        LET C == Consolidation(fib, last'.op, last'.heap, last'.node)
        IN \A i \in Events(C, "link") : ~C.log[i].marked]_vars

\* ------------------------------------------------------------- C30
\* C30: after every public operation of the Fibonacci heap every node of the root list
\* satisfies is_root(); in particular the former children of a removed minimum have no
\* parent reference after extract-min, also while the caller holds the handle of the
\* removed node
C30_RootsHaveNoParent ==
  (impl = "Fibonacci" /\ ~fib.crashed) =>
     \A r \in Range(fib.trees[1]) : is_root(fib, r)

\* ------------------------------------------------------------- C31
\* the i-th child of node n, in the order of the children list, has rank i - 2 or more
ChildRanksGrow(F, n) ==
  \A i \in 1..rank(F, n) : rank(F, F.children[n][i]) >= i - 2

\* C31: after any sequence of public operations of the Fibonacci heap, for every node
\* v of rank k and every i in 1..k, the i-th child of v in attachment order has rank
\* at least i - 2
C31_ChildRanks ==
  (impl = "Fibonacci" /\ ~fib.crashed /\ ~fib.tainted) =>
     \A n \in InHeap(fib, 1) : ChildRanksGrow(fib, n)

\* ------------------------------------------------------------- C32
\* what insert(k) may change: the new node n at the end of the root list, its key, the
\* size, the handle, and the minimum pointer when k is strictly below the minimum
InsertFrame(h, n, k) ==
  /\ last'.outcome = "ok"
  /\ n \notin InHeap(fib, h)
  /\ fib'.trees = [fib.trees EXCEPT ![h] = Append(@, n)]
  /\ \A m \in InHeap(fib, h) : /\ fib'.children[m] = fib.children[m]
                                /\ fib'.marked[m] = fib.marked[m]
                                /\ fib'.parent[m] = fib.parent[m]
                                /\ fib'.key[m] = fib.key[m]
  /\ fib'.children[n] = << >> /\ ~fib'.marked[n] /\ fib'.parent[n] = NULL
  /\ fib'.key[n] = k
  /\ size(fib', h) = size(fib, h) + 1
  /\ n \in fib'.held
  /\ fib'.minimum[h] = IF empty(fib, h) \/ k < fib.key[fib.minimum[h]]
                         THEN n ELSE fib.minimum[h]

\* C32: Fibonacci insert(k) appends one new unmarked childless single-node tree at the
\* end of the root list and returns its handle; every existing tree, its place in the
\* root list, its children and its marks stay as they were (no consolidation), size()
\* grows by one, and the minimum pointer moves to the new node only if k is strictly
\* smaller than the current minimum or the heap was empty
C32_InsertFrame ==
  [][(FibCalled({"insert"}) /\ ~fib.tainted) => InsertFrame(last'.heap, last'.node, last'.key)]_vars


\* ------------------------------------------------------------- C33
\* what a.merge(b) is to make of heap 1 when both heaps hold nodes
Concatenated(F) ==
  /\ F.trees[1] = fib.trees[1] \o fib.trees[2]
  /\ \A n \in InHeap(fib, 1) \cup InHeap(fib, 2) :
       /\ F.children[n] = fib.children[n] /\ F.key[n] = fib.key[n]
       /\ F.marked[n] = fib.marked[n]
  /\ size(F, 1) = size(fib, 1) + size(fib, 2)
  /\ F.minimum[1] \in {fib.minimum[1], fib.minimum[2]}
  /\ F.key[F.minimum[1]] =
       IF fib.key[fib.minimum[2]] < fib.key[fib.minimum[1]]
         THEN fib.key[fib.minimum[2]] ELSE fib.key[fib.minimum[1]]
\* heap h as a caller of it can observe it: roots, trees below them, size, minimum
View(F, h) ==
  [trees |-> F.trees[h], size |-> size(F, h), minimum |-> F.minimum[h],
   nodes |-> [n \in InHeap(F, h) |->
                [key |-> F.key[n], children |-> F.children[n], marked |-> F.marked[n]]]]

\* C33: for two non-empty Fibonacci heaps a.merge(b) leaves a's root list equal to a's
\* former root list followed by b's, no tree restructured, a.size() the sum of both
\* sizes and a's minimum the smaller of the two minima; the copying and the moving
\* merge leave a in the same state
C33_MergeConcatenates ==
  [][(FibCalled({"merge_copy", "merge_move"}) /\ ~fib.tainted
        /\ ~empty(fib, 1) /\ ~empty(fib, 2))
       => /\ last'.outcome = "ok"
          /\ Concatenated(fib')
          /\ View(Settle(merge_copy(fib, 1, 2)), 1) = View(Settle(merge_move(fib, 1, 2)), 1)]_vars

\* ------------------------------------------------------------- C34
\* C34: when consolidation links two roots whose keys are equal, the root passed as the
\* first argument of link (the root being processed) becomes the parent and the other
\* root becomes its child
C34_FirstArgumentWinsTies ==
  [][(FibCalled({"delete_minimum", "remove_minimum"}) /\ ~fib.tainted) =>
        LET C == Consolidation(fib, last'.op, last'.heap, last'.node)
        IN \A i \in Events(C, "link") :
             fib.key[C.log[i].lhs] = fib.key[C.log[i].rhs] => C.log[i].loser = C.log[i].rhs]_vars


\* ------------------------------------------------------------- C35
\* C35: heap::Binary::remove(h) on a live handle h takes exactly the node h out of the
\* array, whatever the heap holds, also when it already holds a node whose key is
\* std::numeric_limits<key_type>::lowest(): afterwards h is not in the array and every
\* other node is
C35_BinaryRemoveTakesHandle ==
  [][BinCalled({"remove"}) =>
        /\ last'.outcome = "ok"
        /\ BinInHeap(bin', last'.heap) = BinInHeap(bin, last'.heap) \ {last'.node}
        /\ bin_size(bin', last'.heap) = bin_size(bin, last'.heap) - 1]_vars


\* ------------------------------------------------------------- C36
\* the work a call in its loop has left: two for each unit by which a tentative
\* distance can still fall, one for each entry of the queue
RECURSIVE Slack(_, _, _)
Slack(d, S, acc) ==
  IF S = {} THEN acc
  ELSE LET v == CHOOSE x \in S : TRUE IN Slack(d, S \ {v}, acc + d[v])
WorkLeft(D, F, B) ==
  2 * Slack(D.d, DOMAIN D.d, 0) + (IF impl = "Fibonacci" THEN size(F, 1) ELSE bin_size(B, 1))

\* C36: for every finite graph with non-negative weights and source and destination in
\* range, dijkstra terminates: each turn of the loop of a call takes the minimum of a
\* queue that has one (no peek or extract on an empty heap) and leaves less work than
\* there was, so that the inserts and extract-mins are finitely many, and the call
\* returns after a walk over parent[] that has met a vertex without parent within |V|
\* steps
C36_DijkstraReturns ==
  [][dij.outcome = "run" =>
        /\ dij'.outcome \in {"run", "ok"}
        /\ dij'.outcome = "run" => WorkLeft(dij', fib', bin') < WorkLeft(dij, fib, bin)
        /\ dij'.outcome = "ok" => Len(dij'.path) <= Cardinality(DOMAIN dij.graph) + 1]_vars

\* ------------------------------------------------------------- C37
\* C37: for heap::Fibonacci, after any sequence of public operations applied with live
\* handles, size() equals the number of nodes reachable from the root list through
\* children lists
C37_SizeCountsNodes ==
  (impl = "Fibonacci" /\ ~fib.crashed /\ ~fib.tainted) =>
     \A h \in Heap : size(fib, h) = Cardinality(InHeap(fib, h))


\* ------------------------------------------------------------- C38
\* the array of a Binary heap with the keys in it
BinView(B, h) == [heap |-> B.heap[h], keys |-> [n \in BinInHeap(B, h) |-> B.key[n]]]
Other(h) == 3 - h

\* C38: after the copying merge a.merge(b) the heaps a and b are independent: a later
\* operation on one of them leaves the size, the keys and the forest / array of the
\* other as they were, for heap::Fibonacci and for heap::Binary
C38_CopyMergeIndependent ==
  [][(last.op = "merge_copy" /\ last.outcome = "ok" /\ last'.outcome = "ok"
        /\ last'.heap \in Heap) =>
       /\ (impl = "Fibonacci" /\ ~fib'.tainted) =>
             View(fib', Other(last'.heap)) = View(fib, Other(last'.heap))
       /\ impl = "Binary" =>
             BinView(bin', Other(last'.heap)) = BinView(bin, Other(last'.heap))]_vars


\* ------------------------------------------------------------- C39
\* C39: merging a non-empty heap b into an empty heap::Fibonacci a, by copy or by move,
\* completes and leaves a with b's elements: a.size() is b's former size and
\* a.find_minimum() is b's former minimum
C39_MergeIntoEmpty ==
  [][(FibCalled({"merge_copy", "merge_move"}) /\ ~fib.tainted
        /\ empty(fib, 1) /\ ~empty(fib, 2)) =>
       /\ last'.outcome = "ok"
       /\ size(fib', 1) = size(fib, 2)
       /\ fib'.trees[1] = fib.trees[2]
       /\ get_minimum(fib', 1) = get_minimum(fib, 2)]_vars


\* ------------------------------------------------------------- C40
\* find_minimum() shows a key that no key of the heap precedes under the Comparator
LeastShown ==
  /\ (impl = "Fibonacci" /\ ~fib.crashed /\ ~fib.tainted /\ ~empty(fib, 1)) =>
        /\ get_minimum(fib, 1) # NULL
        /\ \A n \in InHeap(fib, 1) :
             ~Comparator(fib.order, fib.key[n], fib.key[get_minimum(fib, 1)])
  /\ (impl = "Binary" /\ ~bin.crashed /\ ~bin_empty(bin, 1)) =>
        \A n \in BinInHeap(bin, 1) :
           ~Comparator(bin.order, bin.key[n], bin.key[bin_get_minimum(bin, 1)])
\* decrease_key refuses a key exactly when the current key precedes it
RefusesGreater ==
  /\ (FibCalled({"decrease_key"}) /\ ~fib.tainted /\ last'.outcome # "crash") =>
        (last'.outcome = "KeyIncreased"
           <=> Comparator(fib.order, fib.key[last'.node], last'.key))
  /\ (BinCalled({"decrease_key"}) /\ last'.outcome # "crash") =>
        (last'.outcome = "KeyIncreased"
           <=> Comparator(bin.order, bin.key[last'.node], last'.key))

\* C40: the heaps are parametric over the ordering: with a Comparator other than the
\* default, such as the reverse order, after any sequence of inserts, extract-mins and
\* decrease-keys find_minimum() returns the element that is least under the Comparator,
\* and decrease_key accepts exactly the keys that are not greater than the current key
\* under the Comparator
C40_ComparatorRules == []LeastShown /\ [][RefusesGreater]_vars

====
